---------------------------- MODULE Spec2Model ----------------------------
(***************************************************************************)
(* A model of the tilings crate (src/src/lib.rs): the eleven generators    *)
(* RegularTiling::{triangle, square, hexagon} and                          *)
(* SemiRegularTiling::{one .. eight}.  A generator takes (rows, cols) and  *)
(* returns a struct {name, points, face_index}.                            *)
(*                                                                         *)
(* Numbers.  rows, cols and every vertex key are u32.  A u32 is held as    *)
(* its 32-bit pattern read as a two's complement integer: the values       *)
(* 0 .. 2^31-1 are themselves, and a value v >= 2^31 is the negative       *)
(* integer v - 2^32 (so 4294967295 is -1).  U32Less is the unsigned order. *)
(* Arithmetic on u32 follows the build: with overflow checks (the debug    *)
(* profile) an overflowing +, - or * panics, without them (the release     *)
(* profile) it wraps modulo 2^32.  Both builds are modelled.               *)
(*                                                                         *)
(* Coordinates.  Every coordinate the crate computes is                    *)
(* (h1 + h2*sqrt(2) + h3*sqrt(3)) / 2 for integers h1, h2, h3; a           *)
(* coordinate is the triple <<h1, h2, h3>>.  The final cast to f32 is      *)
(* modelled exactly (round to nearest even on 24 bits) whenever the value  *)
(* is rational (h2 = h3 = 0); a value with an irrational part is kept as   *)
(* the exact value of the f64 expression.                                  *)
(***************************************************************************)
EXTENDS Integers, Sequences, FiniteSets, TLC

VARIABLES
    build,       \* "debug" (overflow checks on) or "release" (wrapping)
    tiling,      \* which generator is called
    rows, cols,  \* the call's arguments (u32)
    status,      \* "called", then "returned", "panicked" or "aborted"
                 \* (for single closure applications: "mapped", "yielded")
    name,        \* the struct returned: name,
    points,      \*   points,
    face_index,  \*   face_index
    emitted,     \* history: for each face of face_index, the cell (x, y)
                 \* whose closure application emitted it, the offsets of
                 \* its vertices, and whether one of its keys wrapped
    truncated,   \* TRUE when face_index holds only the first faces of
                 \* the list, which a long range makes longer than 2^28
                 \* faces
    points_truncated,
                 \* TRUE when points holds only the first points of the
                 \* list, which has 2^31 points or more
    prev,        \* the first mesh a caller keeps when it calls again
    cell,        \* the lattice cell a single closure application is for
    files        \* what the calls of to_obj on the mesh returned, in order

vars == <<build, tiling, rows, cols, status, name, points, face_index,
          emitted, truncated, points_truncated, prev, cell, files>>

----------------------------------------------------------------------------
(* Bounds of the model. *)

\* Spec: rows in 0 .. MaxRows, cols in 0 .. MaxCols
MaxRows == 11
MaxCols == 10
\* how many rows (or cells of a row) of a long range are listed
TruncLen == 8
\* SpecResize: both calls have rows in 0 .. PairRows, cols in 0 .. PairCols
PairRows == 5
PairCols == 4

----------------------------------------------------------------------------
(* u32: type VertexKey = u32, and rows, cols: u32. *)

\* u32::MAX >> 1, the largest pattern that reads as itself
IntMax == 2147483647
IntMin == (-IntMax) - 1

\* a < b as unsigned 32-bit values
U32Less(a, b) == IF (a < 0) = (b < 0) THEN a < b ELSE b < 0

\* (a + b) mod 2^32
WrapAdd(a, b) ==
    IF a >= 0 /\ b >= 0 /\ a > IntMax - b
    THEN (a - IntMax - 1) + (b - IntMax - 1)
    ELSE IF a < 0 /\ b < 0 /\ a < IntMin - b
    THEN (a + IntMax + 1) + (b + IntMax + 1)
    ELSE a + b

\* a + b >= 2^32 as unsigned values
CarryAdd(a, b) ==
    IF a < 0 /\ b < 0 THEN TRUE
    ELSE IF a >= 0 /\ b >= 0 THEN FALSE
    ELSE a + b >= 0

\* a + b on u32: the wrapped value and whether it overflowed
Add32(a, b) == [v |-> WrapAdd(a, b), ov |-> CarryAdd(a, b)]

\* (-b) mod 2^32
Neg32(b) == IF b = IntMin THEN IntMin ELSE -b

\* a - b on u32: the wrapped value and whether it went below zero
Sub32(a, b) == [v |-> WrapAdd(a, Neg32(b)), ov |-> U32Less(a, b)]

\* The 16-bit halves of a u32
Hi16(a) == IF a >= 0 THEN a \div 65536 ELSE (a \div 65536) + 65536
Lo16(a) == a % 65536

\* The u32 whose halves are hi and lo
FromHalves(hi, lo) ==
    IF hi < 32768 THEN hi * 65536 + lo ELSE (hi - 65536) * 65536 + lo

\* u * v for 16-bit u and v, as the halves of the 32-bit product, from
\* t1 = (u >> 8) * v and t0 = (u & 255) * v
Mul16Sum(t1, low) ==
    [hi |-> (t1 \div 256) + (low \div 65536), lo |-> low % 65536]

Mul16Parts(t1, t0) == Mul16Sum(t1, (t1 % 256) * 256 + t0)

Mul16(u, v) == Mul16Parts((u \div 256) * v, (u % 256) * v)

\* a * b on u32: the wrapped value and whether it overflowed, from the
\* products of the halves
Mul32Sum(lo, mid, ov) ==
    [v |-> FromHalves(mid % 65536, lo), ov |-> ov \/ mid >= 65536]

Mul32Parts(ll, hl, lh, hh) ==
    Mul32Sum(ll.lo, ll.hi + hl.lo + lh.lo, hh \/ hl.hi # 0 \/ lh.hi # 0)

Mul32(a, b) ==
    Mul32Parts(Mul16(Lo16(a), Lo16(b)), Mul16(Hi16(a), Lo16(b)),
               Mul16(Lo16(a), Hi16(b)), Hi16(a) # 0 /\ Hi16(b) # 0)

\* a % m on u32, for a modulus 2 <= m < 2^15 (2^32 = 2 * (IntMax + 1))
U32Mod(a, m) ==
    IF a >= 0 THEN a % m
    ELSE ((a % m) + (2 * ((IntMax % m) + 1))) % m

\* x + d for a literal offset d of the source (x + 1, x - 3, ...)
Off32(a, d) == IF d >= 0 THEN Add32(a, d) ELSE Sub32(a, -d)

\* The vertex key (x + dx) + (y + dy) * cols as the source writes it: the
\* wrapped value and whether any of its operations overflowed
KeySum(s, ov) == [v |-> s.v, ov |-> ov \/ s.ov]

KeyMul(xs, yov, m) == KeySum(Add32(xs.v, m.v), xs.ov \/ yov \/ m.ov)

KeyOff(xs, ys, c) == KeyMul(xs, ys.ov, Mul32(ys.v, c))

Key(x, dx, y, dy, c) == KeyOff(Off32(x, dx), Off32(y, dy), c)

----------------------------------------------------------------------------
(* f32: Point = uv::Vec2, two f32. *)

\* The spacing of the 24-bit values around n, 0 <= n < 2^31
Ulp(n) ==
    CASE n < 16777216   -> 1
      [] n < 33554432   -> 2
      [] n < 67108864   -> 4
      [] n < 134217728  -> 8
      [] n < 268435456  -> 16
      [] n < 536870912  -> 32
      [] n < 1073741824 -> 64
      [] OTHER          -> 128

\* n rounded to 24 significant bits, ties to even, for
\* 0 <= n < 2^31 - 64 = 2147483584.  From 2147483584 on the rounding gives
\* 2^31, which is not an integer of TLC: the operator has no value there.
RoundMantissa(n) ==
    LET p  == Ulp(n)
        q  == n \div p
        r  == n % p
        up == (2 * r > p) \/ (2 * r = p /\ q % 2 = 1)
    IN  (IF up THEN q + 1 ELSE q) * p

\* `as f32` of the value h / 2 (h an integer), in halves again, for
\* |h| < 2147483584
RoundF32(h) == IF h < 0 THEN -RoundMantissa(-h) ELSE RoundMantissa(h)

\* `as f32` / `as _` of a coordinate
AsF32(c) == IF c[2] = 0 /\ c[3] = 0 THEN <<RoundF32(c[1]), 0, 0>> ELSE c

\* Point::new(px as f32, py as f32)
Point(px, py) == <<AsF32(px), AsF32(py)>>

----------------------------------------------------------------------------
(* The closures that build `points`: the point of lattice cell (x, y), for *)
(* 0 <= x, y < 2^26.  x >> k is x \div 2^k there, and u32 -> f64 is exact. *)

\* SemiRegularTiling::one, lines 93-96:
\*   x + 0.5 * y,  (y * SQRT_3) * 0.5
one_point(x, y) == Point(<<2 * x + y, 0, 0>>, <<0, 0, y>>)

\* SemiRegularTiling::two, lines 152-158:
\*   (x >> 1) * (2 + SQRT_2) + x % 2 + (y >> 1) * (1 + SQRT_2 * 0.5),
\*   (y >> 1) * (1 + SQRT_2 * 0.5) + y % 2
two_point(x, y) ==
    Point(<<4 * (x \div 2) + 2 * (x % 2) + 2 * (y \div 2),
            2 * (x \div 2) + (y \div 2), 0>>,
          <<2 * (y \div 2) + 2 * (y % 2), y \div 2, 0>>)

\* SemiRegularTiling::three, lines 209-212:
\*   x + 0.5 * (y >> 1),  (y >> 1) * (1 + SQRT_3 * 0.5) + y % 2
three_point(x, y) ==
    Point(<<2 * x + (y \div 2), 0, 0>>,
          <<2 * (y \div 2) + 2 * (y % 2), 0, y \div 2>>)

\* SemiRegularTiling::four, lines 256-259: as one
four_point(x, y) == Point(<<2 * x + y, 0, 0>>, <<0, 0, y>>)

\* SemiRegularTiling::five, lines 316-322:
\*   (x >> 1) * (1 + SQRT_3 * 0.5) + x % 2 - (y >> 1) * 0.5,
\*   (y >> 1) * (1 + SQRT_3 * 0.5) + y % 2 + (x >> 1) * 0.5
five_point(x, y) ==
    Point(<<2 * (x \div 2) + 2 * (x % 2) - (y \div 2), 0, x \div 2>>,
          <<2 * (y \div 2) + 2 * (y % 2) + (x \div 2), 0, y \div 2>>)

\* SemiRegularTiling::six, lines 395-414:
\*   px = (x >> 1) * (2 + SQRT_3) + x % 2 + (y >> 2) * (1 + SQRT_3 * 0.5)
\*   py = (y >> 2) * (1.5 + SQRT_3)
\*   y % 4: 0 => (), 1 => px += 0.5, py += SQRT_3 * 0.5,
\*          2 => px += 0.5, py += 1 + SQRT_3 * 0.5, 3 => py += 1 + SQRT_3
six_point(x, y) ==
    LET r == y % 4
    IN  Point(<<4 * (x \div 2) + 2 * (x % 2) + 2 * (y \div 4)
                    + (IF r = 1 \/ r = 2 THEN 1 ELSE 0),
                0, 2 * (x \div 2) + (y \div 4)>>,
              <<3 * (y \div 4) + (IF r >= 2 THEN 2 ELSE 0),
                0, 2 * (y \div 4) + (IF r = 3 THEN 2 ELSE IF r = 0 THEN 0 ELSE 1)>>)

\* SemiRegularTiling::seven, lines 476-495:
\*   px = (x >> 1) * (1 + SQRT_3) + (x % 2) * SQRT_3
\*          + (y >> 2) * (0.5 + SQRT_3 * 0.5)
\*   py = (y >> 2) * (1.5 + SQRT_3 * 0.5)
\*   y % 4: 0 => px += SQRT_3 * 0.5, py -= 0.5,  1 => (),  2 => py += 1,
\*          3 => px += SQRT_3 * 0.5, py += 1.5
seven_point(x, y) ==
    LET r == y % 4
    IN  Point(<<2 * (x \div 2) + (y \div 4),
                0, 2 * (x \div 2) + 2 * (x % 2) + (y \div 4)
                    + (IF r = 0 \/ r = 3 THEN 1 ELSE 0)>>,
              <<3 * (y \div 4) + (CASE r = 0 -> -1 [] r = 1 -> 0
                                    [] r = 2 -> 2 [] OTHER -> 3),
                0, y \div 4>>)

\* SemiRegularTiling::eight, lines 572-599:
\*   px = (x >> 2) * (3 + 3 * SQRT_3) + (y >> 2) * (1.5 + 1.5 * SQRT_3)
\*   py = (y >> 2) * (1.5 + SQRT_3 * 0.5)
\*   y % 4: as seven
\*   x % 4: 0 => (), 1 => px += SQRT_3, 2 => px += 1 + SQRT_3,
\*          3 => px += 1 + 2 * SQRT_3
eight_point(x, y) ==
    LET r == y % 4
        q == x % 4
    IN  Point(<<6 * (x \div 4) + 3 * (y \div 4) + (IF q >= 2 THEN 2 ELSE 0),
                0, 6 * (x \div 4) + 3 * (y \div 4)
                    + (IF r = 0 \/ r = 3 THEN 1 ELSE 0)
                    + (CASE q = 0 -> 0 [] q = 1 -> 2 [] q = 2 -> 2
                         [] OTHER -> 4)>>,
              <<3 * (y \div 4) + (CASE r = 0 -> -1 [] r = 1 -> 0
                                    [] r = 2 -> 2 [] OTHER -> 3),
                0, y \div 4>>)

\* RegularTiling::triangle, lines 692-695:
\*   x + 0.5 * y,  y * SQRT_3 * 0.5
triangle_point(x, y) == Point(<<2 * x + y, 0, 0>>, <<0, 0, y>>)

\* RegularTiling::square, line 728:  x as f32, y as f32
square_point(x, y) == Point(<<2 * x, 0, 0>>, <<2 * y, 0, 0>>)

\* RegularTiling::hexagon, lines 755-759:
\*   ((x + y % 2) / 2).floor() * 3 + (x + y) % 2 - (y % 2) * 1.5,
\*   y * SQRT_3 * 0.5
hexagon_point(x, y) ==
    Point(<<6 * ((x + (y % 2)) \div 2) + 2 * ((x + y) % 2) - 3 * (y % 2),
            0, 0>>,
          <<0, 0, y>>)

----------------------------------------------------------------------------
(* The closures that build `face_index`: the faces emitted for lattice     *)
(* cell (x, y), each face the list of the offsets <<dx, dy>> of its        *)
(* vertices, in the order the source lists them; the vertex itself is the  *)
(* key (x + dx) + (y + dy) * cols.  `ov` says whether the closure's own    *)
(* arithmetic (a discriminator) overflowed.                                *)

Tri1 == << <<0, 0>>, <<1, 0>>, <<0, 1>> >>
Tri2 == << <<1, 0>>, <<1, 1>>, <<0, 1>> >>
Quad == << <<0, 0>>, <<1, 0>>, <<1, 1>>, <<0, 1>> >>

\* filter_map / push: the face when the condition holds
When(cond, face) == IF cond THEN <<face>> ELSE <<>>

\* SemiRegularTiling::one, lines 105-135:  let i = (x + 3 * y) % 7
one_i(x, y) == U32Mod(WrapAdd(x, Mul32(3, y).v), 7)

one_push(i, ov) ==
    [ov |-> ov,
     faces |->
        When(i = 0 \/ i = 2 \/ i >= 5, Tri1)
     \o When(i = 2 \/ i >= 4, Tri2)
     \o When(i = 4, << <<1, 0>>, <<0, 1>>, <<-1, 1>>,
                       <<-1, 0>>, <<0, -1>>, <<1, -1>> >>)]

one_faces(x, y) ==
    one_push(one_i(x, y), Mul32(3, y).ov \/ CarryAdd(x, Mul32(3, y).v))

\* SemiRegularTiling::two, lines 166-179: the first iterator of the chain
two_faces_a(x, y) ==
    [ov |-> FALSE,
     faces |->
        When(U32Mod(x, 2) = 1 /\ U32Mod(y, 2) = 0,
             << <<0, 0>>, <<1, -1>>, <<2, -1>>, <<1, 0>>,
                <<1, 1>>, <<0, 2>>, <<-1, 2>>, <<0, 1>> >>)]

\* SemiRegularTiling::two, lines 184-193: the chained iterator
two_faces_b(x, y) ==
    [ov |-> FALSE,
     faces |-> When(U32Mod(x, 2) = 0 /\ U32Mod(y, 2) = 0, Quad)]

\* SemiRegularTiling::three, lines 220-240
three_faces(x, y) ==
    [ov |-> FALSE,
     faces |-> IF U32Mod(y, 2) = 0 THEN <<Quad>> ELSE <<Tri1, Tri2>>]

\* SemiRegularTiling::four, lines 268-299
four_faces(x, y) ==
    LET a == U32Mod(x, 2)
        b == U32Mod(y, 2)
    IN  [ov |-> FALSE,
         faces |->
            When(a = 0 /\ b = 0, Tri1)
         \o When(a = 0 /\ b = 1, << <<0, 0>>, <<0, 1>>, <<-1, 1>> >>)
         \o When(a = 1 /\ b = 0, << <<0, 0>>, <<1, 0>>, <<1, 1>>,
                                    <<0, 2>>, <<-1, 2>>, <<-1, 1>> >>)]

\* SemiRegularTiling::five, lines 331-378
five_faces(x, y) ==
    LET a == U32Mod(x, 2)
        b == U32Mod(y, 2)
    IN  [ov |-> FALSE,
         faces |->
            (IF a = 0 /\ b = 0
             THEN <<Quad, << <<0, 0>>, <<0, 1>>, <<-1, 1>> >> >>
             ELSE <<>>)
         \o When(a = 1 /\ b = 0, Tri1)
         \o (IF a = 0 /\ b = 1
             THEN << << <<0, 0>>, <<1, 0>>, <<1, 1>> >>,
                     << <<0, 0>>, <<1, 1>>, <<0, 1>> >> >>
             ELSE <<>>)
         \o When(a = 1 /\ b = 1, Quad)]

\* SemiRegularTiling::six, lines 423-459
\* A closure that leaves the dodecagon out: C14 does not hold of it
six_faces_plain(x, y) ==
    [ov |-> FALSE,
     faces |->
        When(U32Mod(x, 2) = 0 /\ U32Mod(y, 4) = 0, Tri1)
        \o When(U32Mod(x, 2) = 0 /\ U32Mod(y, 4) = 2,
                << <<0, 0>>, <<1, 1>>, <<0, 1>> >>)]

six_faces(x, y) ==
    LET a == U32Mod(x, 2)
        b == U32Mod(y, 4)
    IN  [ov |-> FALSE,
         faces |->
            (IF a = 0 /\ b = 0
             THEN << << <<1, 0>>, <<2, -1>>, <<3, -1>>, <<2, 0>>,
                        <<2, 1>>, <<2, 2>>, <<2, 3>>, <<1, 4>>,
                        <<0, 4>>, <<1, 3>>, <<0, 2>>, <<0, 1>> >>,
                     Tri1 >>
             ELSE <<>>)
         \o When(a = 0 /\ b = 2, << <<0, 0>>, <<1, 1>>, <<0, 1>> >>)]

\* SemiRegularTiling::seven, lines 504-555
seven_faces(x, y) ==
    LET a == U32Mod(x, 2)
        b == U32Mod(y, 4)
    IN  [ov |-> FALSE,
         faces |->
            (IF a = 0 /\ b = 0
             THEN << << <<0, 0>>, <<1, 1>>, <<1, 2>>,
                        <<0, 3>>, <<0, 2>>, <<0, 1>> >>,
                     << <<0, 0>>, <<2, -2>>, <<2, -1>>, <<1, 1>> >>,
                     << <<1, 1>>, <<2, -1>>, <<2, 1>> >> >>
             ELSE <<>>)
         \o When(a = 1 /\ b = 1, Quad)
         \o When(a = 1 /\ b = 2,
                 << <<0, 0>>, <<-1, 2>>, <<-1, 3>>, <<-1, 1>> >>)
         \o When(a = 0 /\ b = 2, << <<-1, 0>>, <<0, 0>>, <<-2, 2>> >>)]

\* SemiRegularTiling::eight, lines 608-665
\* A closure that tells the dodecagon's cell by x % 2, not x % 4: C13 does
\* not hold of it
eight_faces_odd(x, y) ==
    LET a == U32Mod(x, 4)
        b == U32Mod(y, 4)
    IN  [ov |-> FALSE,
         faces |->
            When(U32Mod(x, 2) = 0 /\ b = 0,
                 << <<0, 0>>, <<1, 1>>, <<1, 2>>,
                    <<0, 3>>, <<0, 2>>, <<0, 1>> >>)
         \o When(a = 1 /\ b = 1, Quad)
         \o When(a = 3 /\ b = 2,
                 << <<0, 0>>, <<-3, 2>>, <<-3, 3>>, <<-1, 1>> >>)
         \o When(a = 0 /\ b = 2,
                 << <<0, 1>>, <<-1, 3>>, <<-2, 2>>, <<0, 0>> >>)
         \o When(U32Mod(x, 2) = 1 /\ b = 1,
                 << <<0, 0>>, <<1, -2>>, <<2, -3>>, <<3, -3>>,
                    <<3, -2>>, <<1, 0>>, <<1, 1>>, <<-1, 3>>,
                    <<-1, 4>>, <<-2, 4>>, <<-3, 3>>, <<0, 1>> >>)]

eight_faces(x, y) ==
    LET a == U32Mod(x, 4)
        b == U32Mod(y, 4)
    IN  [ov |-> FALSE,
         faces |->
            When(U32Mod(x, 2) = 0 /\ b = 0,
                 << <<0, 0>>, <<1, 1>>, <<1, 2>>,
                    <<0, 3>>, <<0, 2>>, <<0, 1>> >>)
         \o When(a = 1 /\ b = 1, Quad)
         \o When(a = 3 /\ b = 2,
                 << <<0, 0>>, <<-3, 2>>, <<-3, 3>>, <<-1, 1>> >>)
         \o When(a = 0 /\ b = 2,
                 << <<0, 1>>, <<-1, 3>>, <<-2, 2>>, <<0, 0>> >>)
         \o When(a = 3 /\ b = 1,
                 << <<0, 0>>, <<1, -2>>, <<2, -3>>, <<3, -3>>,
                    <<3, -2>>, <<1, 0>>, <<1, 1>>, <<-1, 3>>,
                    <<-1, 4>>, <<-2, 4>>, <<-3, 3>>, <<0, 1>> >>)]

\* RegularTiling::triangle, lines 703-714
triangle_faces(x, y) == [ov |-> FALSE, faces |-> <<Tri1, Tri2>>]

\* RegularTiling::square, lines 734-739
square_faces(x, y) == [ov |-> FALSE, faces |-> <<Quad>>]

\* RegularTiling::hexagon, lines 766-777
\* A closure that closes the hexagon over one vertex less: C8 does not hold
\* of it
hexagon_faces_open(x, y) ==
    [ov |-> FALSE,
     faces |->
        When(U32Mod(x, 2) = U32Mod(y, 2),
             << <<0, 0>>, <<1, 0>>, <<1, 1>>, <<1, 2>>, <<0, 2>> >>)]

hexagon_faces(x, y) ==
    LET a == U32Mod(x, 2)
        b == U32Mod(y, 2)
    IN  [ov |-> FALSE,
         faces |->
            When((b = 0 /\ a = 0) \/ (b = 1 /\ a = 1),
                 << <<0, 0>>, <<1, 0>>, <<1, 1>>,
                    <<1, 2>>, <<0, 2>>, <<0, 1>> >>)]

----------------------------------------------------------------------------
(* Iterators. *)

\* flat_map / flatten / chain: the concatenation of ss[lo], ..., ss[hi]
RECURSIVE Concat(_, _, _)
Concat(ss, lo, hi) ==
    IF lo > hi THEN <<>>
    ELSE IF lo = hi THEN ss[lo]
    ELSE LET mid == (lo + hi) \div 2
         IN  Concat(ss, lo, mid) \o Concat(ss, mid + 1, hi)

Flatten(ss) == Concat(ss, 1, Len(ss))

\* Whether the range up to the bound b is too long to list: the bound
\* wrapped (it is at least 2^32 - 4) or it is 2^31 or more
LongRange(b) == b.ov \/ b.v < 0

\* The items of the range lo .. b.v, where b is the bound rows - k or
\* cols - k as Sub32 computed it, in the order of u32.  Of a long range
\* the first TruncLen items are listed.
RangeItems(lo, b) ==
    IF ~U32Less(lo, b.v) THEN <<>>
    ELSE IF LongRange(b) THEN [i \in 1 .. TruncLen |-> lo + (i - 1)]
    ELSE [i \in 1 .. (b.v - lo) |-> lo + (i - 1)]

\* The last items of the range lo .. b.v: the last TruncLen of a long range
\* whose bound did not wrap, and else the items RangeItems lists
RangeEnd(lo, b) ==
    IF LongRange(b) /\ ~b.ov
    THEN [i \in 1 .. TruncLen |-> WrapAdd(b.v, (i - 1) - TruncLen)]
    ELSE RangeItems(lo, b)

\* The point closure and the face closure of a generator
PointAt(k, x, y) ==
    CASE k = "one"      -> one_point(x, y)
      [] k = "two"      -> two_point(x, y)
      [] k = "three"    -> three_point(x, y)
      [] k = "four"     -> four_point(x, y)
      [] k = "five"     -> five_point(x, y)
      [] k = "six"      -> six_point(x, y)
      [] k = "seven"    -> seven_point(x, y)
      [] k = "eight"    -> eight_point(x, y)
      [] k = "triangle" -> triangle_point(x, y)
      [] k = "square"   -> square_point(x, y)
      [] k = "hexagon"  -> hexagon_point(x, y)

FacesAt(k, x, y) ==
    CASE k = "one"      -> one_faces(x, y)
      [] k = "two"      -> two_faces_a(x, y)
      [] k = "two_b"    -> two_faces_b(x, y)
      [] k = "three"    -> three_faces(x, y)
      [] k = "four"     -> four_faces(x, y)
      [] k = "five"     -> five_faces(x, y)
      [] k = "six"      -> six_faces(x, y)
      [] k = "seven"    -> seven_faces(x, y)
      [] k = "eight"    -> eight_faces(x, y)
      [] k = "triangle" -> triangle_faces(x, y)
      [] k = "square"   -> square_faces(x, y)
      [] k = "hexagon"  -> hexagon_faces(x, y)

\* Points that leave out the last row of the lattice: C5 does not hold of
\* them
PointsOf_short(k, r, c) ==
    Flatten([yy \in 1 .. r - 1 |->
               [xx \in 1 .. c |-> PointAt(k, xx - 1, yy - 1)]])

\* Points placed by their flat index and the width of the patch, not by the
\* cell: C9 does not hold of them
PointsOf_flat(k, r, c) ==
    Flatten([yy \in 1 .. r |->
               [xx \in 1 .. c |-> PointAt(k, xx - 1 + (yy - 1) * c, c)]])

\* The points of the rows ys over the columns xs, row by row
PointRows(k, ys, xs) ==
    Flatten([yi \in 1 .. Len(ys) |->
               [xi \in 1 .. Len(xs) |-> PointAt(k, xs[xi], ys[yi])]])

\* points: (0..rows).flat_map(|y| (0..cols).map(move |x| Point::new(..)))
\* Of a long list the first points are listed: the first TruncLen points of
\* row 0 when cols is 2^31 or more, and else the first TruncLen rows.
PointsOf(k, r, c) ==
    PointRows(k,
              IF c < 0 /\ r # 0 THEN <<0>>
              ELSE RangeItems(0, [v |-> r, ov |-> FALSE]),
              RangeItems(0, [v |-> c, ov |-> FALSE]))

\* The faces the closure k emits for cell (x, y): the keys of each face, and
\* with them the cell, the offsets, and whether a key's arithmetic wrapped
CellKeys(cl, x, y, keyed) ==
    [ov    |-> cl.ov \/ \E f \in 1 .. Len(keyed) :
                           \E j \in 1 .. Len(keyed[f]) : keyed[f][j].ov,
     faces |-> [f \in 1 .. Len(keyed) |->
                  [keys    |-> [j \in 1 .. Len(keyed[f]) |-> keyed[f][j].v],
                   x       |-> x,
                   y       |-> y,
                   offs    |-> cl.faces[f],
                   wrapped |-> \E j \in 1 .. Len(keyed[f]) : keyed[f][j].ov]]]

CellOffsets(cl, x, y, c) ==
    CellKeys(cl, x, y,
             [f \in 1 .. Len(cl.faces) |->
                [j \in 1 .. Len(cl.faces[f]) |->
                   Key(x, cl.faces[f][j][1], y, cl.faces[f][j][2], c)]])

CellFaces(k, x, y, c) == CellOffsets(FacesAt(k, x, y), x, y, c)

\* One iterator of face_index:
\*   (ylo .. rows - yk).flat_map(|y| (xlo .. cols - xk).<closure k>)
FaceIter(k, ylo, yk, xlo, xk) ==
    [k |-> k, ylo |-> ylo, yk |-> yk, xlo |-> xlo, xk |-> xk]

\* Running one iterator to its end.  The inner bound cols - xk is computed
\* inside the outer closure, so only when the outer range has an item.
\*   ys, xs: the items of the outer and the inner range
\*   yb, xb: the bounds rows - yk, cols - xk as Sub32 computed them
\* A long range is listed as its first TruncLen items.  Whether a closure
\* emits a face depends on x and y through a period of at most 7, so a row
\* (a range) whose first TruncLen cells (rows) emit nothing emits nothing at
\* all, and one that emits something emits more than 2^28 faces: the list
\* is cut there and marked truncated.

\* The closure applied to the cells of the rows ys over the columns xs
Cells(k, ys, xs, c) ==
    [yi \in 1 .. Len(ys) |->
       [xi \in 1 .. Len(xs) |-> CellFaces(k, xs[xi], ys[yi], c)]]

\* The faces of each row of cells
RowFaces(cells) ==
    [yi \in 1 .. Len(cells) |->
       Flatten([xi \in 1 .. Len(cells[yi]) |-> cells[yi][xi].faces])]

\* Whether a closure application overflowed
Overflowed(cells) ==
    \E yi \in 1 .. Len(cells) : \E xi \in 1 .. Len(cells[yi]) : cells[yi][xi].ov

\* The inner range is long: the first row that emits a face is cut
FirstRow(rf) ==
    IF \A yi \in 1 .. Len(rf) : rf[yi] = <<>>
    THEN [faces |-> <<>>, truncated |-> FALSE]
    ELSE [faces |-> rf[CHOOSE yi \in 1 .. Len(rf) :
                         /\ rf[yi] # <<>>
                         /\ \A z \in 1 .. (yi - 1) : rf[z] = <<>>],
          truncated |-> TRUE]

\* The inner range is not long: every listed row is whole
AllRows(fs, ylong) == [faces |-> fs, truncated |-> ylong /\ fs # <<>>]

Ran(panic, part) ==
    [panic |-> panic, faces |-> part.faces, truncated |-> part.truncated]

\* panic: the build checks overflow, and the bound cols - xk (early), an
\* application to a listed cell, or one to a cell past them (last)
\* overflowed
Collect(cells, early, last, ylong, xlong, checks) ==
    Ran(early \/ (checks /\ (Overflowed(cells) \/ last)),
        IF xlong THEN FirstRow(RowFaces(cells))
        ELSE AllRows(Flatten(RowFaces(cells)), ylong))

\* last: a key grows with x and with y, and the last TruncLen rows and
\* columns of a long range hold a cell of every class of x and y the
\* closures tell apart, so an application to a cell of the range overflows
\* exactly when one to a listed cell or to one of the last cells does.
RunCells(it, ys, xs, yb, xb, c, early, checks) ==
    Collect(Cells(it.k, ys, xs, c), early,
            /\ checks
            /\ ys # <<>>
            /\ ~xb.ov
            /\ LongRange(yb) \/ LongRange(xb)
            /\ Overflowed(Cells(it.k, RangeEnd(it.ylo, yb),
                                RangeEnd(it.xlo, xb), c)),
            LongRange(yb), ys # <<>> /\ LongRange(xb), checks)

RunRange(it, ys, yb, xb, c, checks) ==
    RunCells(it, ys, IF ys = <<>> THEN <<>> ELSE RangeItems(it.xlo, xb),
             yb, xb, c, checks /\ ys # <<>> /\ xb.ov, checks)

RunIter(it, r, c, checks) ==
    RunRange(it, RangeItems(it.ylo, Sub32(r, it.yk)), Sub32(r, it.yk),
             Sub32(c, it.xk), c, checks)

\* a.chain(b): b's items follow a's, once a has ended
RECURSIVE RunChain(_, _, _, _, _)
ChainRest(a, b) ==
    [panic |-> b.panic, faces |-> a.faces \o b.faces,
     truncated |-> b.truncated]

\* When a's list is cut, of what follows it a panic is all that is kept
ChainNext(a, its, i, r, c, checks) ==
    IF a.panic THEN a
    ELSE IF a.truncated
    THEN [a EXCEPT !.panic = RunChain(its, i + 1, r, c, checks).panic]
    ELSE ChainRest(a, RunChain(its, i + 1, r, c, checks))

RunChain(its, i, r, c, checks) ==
    IF i > Len(its)
    THEN [panic |-> FALSE, faces |-> <<>>, truncated |-> FALSE]
    ELSE ChainNext(RunIter(its[i], r, c, checks), its, i, r, c, checks)

\* What a call that panicked leaves: nothing
Panicked ==
    [status |-> "panicked", name |-> "", points |-> <<>>,
     face_index |-> <<>>, emitted |-> <<>>, truncated |-> FALSE,
     points_truncated |-> FALSE, abortable |-> FALSE]

\* Self { name, points, face_index }: the fields are computed in this
\* order.  Every iterator's outer bound rows - yk is computed when the
\* iterator is built, before any item is collected.  collect() of a long
\* list may fail to allocate, which aborts the process (abortable).  A
\* build that checks cuts no face list without a long point list before
\* it: a long range that did not wrap has cells only if rows or cols is
\* 2^31 or more and the other is not 0.
Struct(nm, pts, long, early, run) ==
    IF early \/ run.panic THEN [Panicked EXCEPT !.abortable = long]
    ELSE [status     |-> "returned",
          name       |-> nm,
          points     |-> pts,
          face_index |-> [i \in 1 .. Len(run.faces) |-> run.faces[i].keys],
          emitted    |-> [i \in 1 .. Len(run.faces) |->
                            [x       |-> run.faces[i].x,
                             y       |-> run.faces[i].y,
                             offs    |-> run.faces[i].offs,
                             wrapped |-> run.faces[i].wrapped]],
          truncated  |-> run.truncated,
          points_truncated |-> long,
          abortable  |-> long \/ run.truncated]

\* The point list is long when rows or cols is 2^31 or more and the other
\* is not 0
Tiling(nm, k, its, r, c, checks) ==
    Struct(nm, PointsOf(k, r, c), (r < 0 /\ c # 0) \/ (c < 0 /\ r # 0),
           checks /\ \E i \in 1 .. Len(its) : Sub32(r, its[i].yk).ov,
           RunChain(its, 1, r, c, checks))

----------------------------------------------------------------------------
(* The generators.  `checks` is whether the build checks u32 overflow. *)

\* SemiRegularTiling::one: (1..rows - 1), (1..cols - 1)
one_iter == <<FaceIter("one", 1, 1, 1, 1)>>

one(r, c, checks) == Tiling("SEMI-REGULAR-1", "one", one_iter, r, c, checks)

\* SemiRegularTiling::two: (1..rows - 2), (1..cols - 2), chained with
\* (0..rows - 1), (0..cols - 1)
two_iter == <<FaceIter("two", 1, 2, 1, 2), FaceIter("two_b", 0, 1, 0, 1)>>

two(r, c, checks) == Tiling("SEMI-REGULAR-2", "two", two_iter, r, c, checks)

\* SemiRegularTiling::three: (0..rows - 1), (0..cols - 1)
three_iter == <<FaceIter("three", 0, 1, 0, 1)>>

three(r, c, checks) ==
    Tiling("SEMI-REGULAR-3", "three", three_iter, r, c, checks)

\* SemiRegularTiling::four: (1..rows - 2), (1..cols - 1)
four_iter == <<FaceIter("four", 1, 2, 1, 1)>>

four(r, c, checks) ==
    Tiling("SEMI-REGULAR-4", "four", four_iter, r, c, checks)

\* SemiRegularTiling::five: (0..rows - 1), (1..cols - 1)
five_iter == <<FaceIter("five", 0, 1, 1, 1)>>

five(r, c, checks) ==
    Tiling("SEMI-REGULAR-5", "five", five_iter, r, c, checks)

\* SemiRegularTiling::six: (1..rows - 4), (0..cols - 3)
six_iter == <<FaceIter("six", 1, 4, 0, 3)>>

six(r, c, checks) == Tiling("SEMI-REGULAR-6", "six", six_iter, r, c, checks)

\* SemiRegularTiling::seven: (2..rows - 3), (2..cols - 2)
seven_iter == <<FaceIter("seven", 2, 3, 2, 2)>>

seven(r, c, checks) ==
    Tiling("SEMI-REGULAR-7", "seven", seven_iter, r, c, checks)

\* SemiRegularTiling::eight: (3..rows - 4), (3..cols - 3)
eight_iter == <<FaceIter("eight", 3, 4, 3, 3)>>

eight(r, c, checks) ==
    Tiling("SEMI-REGULAR-8", "eight", eight_iter, r, c, checks)

\* RegularTiling::triangle: (0..rows - 1), (0..cols - 1)
triangle_iter == <<FaceIter("triangle", 0, 1, 0, 1)>>

triangle(r, c, checks) ==
    Tiling("TRIANGLE", "triangle", triangle_iter, r, c, checks)

\* RegularTiling::square: (0..rows - 1), (0..cols - 1)
square_iter == <<FaceIter("square", 0, 1, 0, 1)>>

square(r, c, checks) == Tiling("SQUARE", "square", square_iter, r, c, checks)

\* RegularTiling::hexagon: (0..rows - 2), (0..cols - 1)
hexagon_iter == <<FaceIter("hexagon", 0, 2, 0, 1)>>

hexagon(r, c, checks) ==
    Tiling("HEXAGON", "hexagon", hexagon_iter, r, c, checks)

Generators ==
    {"one", "two", "three", "four", "five", "six", "seven", "eight",
     "triangle", "square", "hexagon"}

\* The call of generator k
Generate(k, r, c, checks) ==
    CASE k = "one"      -> one(r, c, checks)
      [] k = "two"      -> two(r, c, checks)
      [] k = "three"    -> three(r, c, checks)
      [] k = "four"     -> four(r, c, checks)
      [] k = "five"     -> five(r, c, checks)
      [] k = "six"      -> six(r, c, checks)
      [] k = "seven"    -> seven(r, c, checks)
      [] k = "eight"    -> eight(r, c, checks)
      [] k = "triangle" -> triangle(r, c, checks)
      [] k = "square"   -> square(r, c, checks)
      [] k = "hexagon"  -> hexagon(r, c, checks)

\* The iterators of generator k's face_index
FaceIters(k) ==
    CASE k = "one"      -> one_iter
      [] k = "two"      -> two_iter
      [] k = "three"    -> three_iter
      [] k = "four"     -> four_iter
      [] k = "five"     -> five_iter
      [] k = "six"      -> six_iter
      [] k = "seven"    -> seven_iter
      [] k = "eight"    -> eight_iter
      [] k = "triangle" -> triangle_iter
      [] k = "square"   -> square_iter
      [] k = "hexagon"  -> hexagon_iter

----------------------------------------------------------------------------
(* to_obj: the mesh as the lines of a Wavefront OBJ file.  A line is the   *)
(* text that one writeln! ends, held as the sequence of its fields, which  *)
(* single spaces separate in the file.                                     *)

\* Display of a u32: the decimal digits of the unsigned value
U32Text(k) ==
    IF k >= 0 THEN ToString(k)
    ELSE ToString(((k + IntMax) + 1) \div 10 + 214748364
                  + ((((k + IntMax) + 1) % 10) + 8) \div 10)
         \o ToString(((((k + IntMax) + 1) % 10) + 8) % 10)

\* Display of an f32 writes the shortest digits that read back as the same
\* f32, and of those the nearest.  For h halves, h >= 2^25 a multiple of
\* Ulp(h): the f32 values that h / 2 lies between are Ulp(h) halves away
\* (the one below a power of two, whose mantissa h / Ulp(h) is 2^23, half
\* of that), and a decimal reads back as h / 2 when it is less than half
\* way to them, or half way and the mantissa is even.
\*   p: 2 * 10^j halves, the unit of the digit the text is cut after
\* CutsDown: h cut down to a multiple of p reads back; CutsUp: the multiple
\* of p above it does
CutsDown(h, p) ==
    \/ h % p < Ulp(h) \div (IF h \div Ulp(h) = 8388608 THEN 4 ELSE 2)
    \/ /\ (h \div Ulp(h)) % 2 = 0
       /\ h % p = Ulp(h) \div (IF h \div Ulp(h) = 8388608 THEN 4 ELSE 2)

CutsUp(h, p) ==
    \/ (h % p) + Ulp(h) \div 2 > p
    \/ (h \div Ulp(h)) % 2 = 0 /\ (h % p) + Ulp(h) \div 2 = p

\* 2 * 10^j for j = 9, .., 0: the first that cuts is the shortest text
Unit(h) ==
    LET Units == <<2000000000, 200000000, 20000000, 2000000, 200000, 20000,
                   2000, 200, 20, 2>>
    IN  Units[CHOOSE j \in 1 .. Len(Units) :
                /\ CutsDown(h, Units[j]) \/ CutsUp(h, Units[j])
                /\ \A z \in 1 .. (j - 1) :
                      ~(CutsDown(h, Units[z]) \/ CutsUp(h, Units[z]))]

Shortest(h, p) ==
    IF CutsUp(h, p) /\ (~CutsDown(h, p) \/ h % p >= p - (h % p))
    THEN h - (h % p) + p
    ELSE h - (h % p)

\* Below 2^24 the value has at most one digit after the point, and no
\* shorter decimal reads back as it: of h / 2 the digits ("3", "1.5")
HalvesText(h) ==
    IF h < 33554432
    THEN ToString(h \div 2) \o (IF h % 2 = 1 THEN ".5" ELSE "")
    ELSE ToString(Shortest(h, Unit(h)) \div 2)

\* Of a value with an irrational part, for the digits of its f32, the value
\* itself
F32Text(c) ==
    IF c[2] = 0 /\ c[3] = 0
    THEN (IF c[1] < 0 THEN "-" \o HalvesText(-c[1]) ELSE HalvesText(c[1]))
    ELSE "(" \o ToString(c[1]) \o "+" \o ToString(c[2]) \o "*sqrt2+"
             \o ToString(c[3]) \o "*sqrt3)/2"

\* writeln!(file, "o {}-tiling", self.name)
ObjectLine(nm) == <<"o", nm \o "-tiling">>

\* writeln!(file, "v {} {} 0", vertex.x, vertex.y)
VertexLine(vertex) == <<"v", F32Text(vertex[1]), F32Text(vertex[2]), "0">>

\* face.iter().rev()
Rev(face) == [j \in 1 .. Len(face) |-> face[Len(face) + 1 - j]]

\* for vertex_index in ..: write!(file, " {}", vertex_index + 1), from the
\* j-th key on; ov: whether a vertex_index + 1 overflowed
RECURSIVE WriteKeys(_, _, _, _)
WriteKey(keys, j, next, text, ov) ==
    WriteKeys(keys, j + 1, Append(text, U32Text(next.v)), ov \/ next.ov)

WriteKeys(keys, j, text, ov) ==
    IF j > Len(keys) THEN [ov |-> ov, text |-> text]
    ELSE WriteKey(keys, j, Add32(keys[j], 1), text, ov)

\* write!(file, "f"), the keys, writeln!(file)
FaceLine(face, reverse_face_winding) ==
    WriteKeys(IF reverse_face_winding THEN Rev(face) ELSE face, 1, <<"f">>,
              FALSE)

\* The two loops over self.face_index
FaceLines(fi, reverse_face_winding) ==
    [f \in 1 .. Len(fi) |-> FaceLine(fi[f], reverse_face_winding)]

\* What the call leaves: Ok(file), or nothing when vertex_index + 1 panics
Written(head, flines, checks) ==
    IF checks /\ \E f \in 1 .. Len(flines) : flines[f].ov
    THEN [status |-> "panicked", lines |-> <<>>]
    ELSE [status |-> "ok",
          lines  |-> head \o [f \in 1 .. Len(flines) |-> flines[f].text]]

to_obj(nm, pts, fi, reverse_face_winding, checks) ==
    Written(<<ObjectLine(nm)>> \o [v \in 1 .. Len(pts) |-> VertexLine(pts[v])],
            FaceLines(fi, reverse_face_winding), checks)

----------------------------------------------------------------------------
(* The state machine: a call of one generator. *)

Builds == {"debug", "release"}

\* the debug profile checks overflow, the release profile does not
Checks == build = "debug"

NoMesh ==
    [tiling |-> "", rows |-> 0, cols |-> 0, status |-> "none", name |-> "",
     points |-> <<>>, face_index |-> <<>>, between |-> 0]

NoCell == [x |-> 0, y |-> 0]

\* A generator has been called and has not run yet
Called ==
    /\ status = "called"
    /\ name = ""
    /\ points = <<>>
    /\ face_index = <<>>
    /\ emitted = <<>>
    /\ truncated = FALSE
    /\ points_truncated = FALSE
    /\ prev = NoMesh
    /\ files = <<>>

Init ==
    /\ build \in Builds
    /\ tiling \in Generators
    /\ rows \in 0 .. MaxRows
    /\ cols \in 0 .. MaxCols
    /\ cell = NoCell
    /\ Called

\* collect() of a long list: the allocation succeeds, or it fails and the
\* process is aborted
Aborted == [Panicked EXCEPT !.status = "aborted"]

Outcomes(m) == IF m.abortable THEN {m, Aborted} ELSE {m}

\* The call ends: it returns the struct, panics, or is aborted
Result(m) ==
    \E out \in Outcomes(m) :
        /\ status' = out.status
        /\ name' = out.name
        /\ points' = out.points
        /\ face_index' = out.face_index
        /\ emitted' = out.emitted
        /\ truncated' = out.truncated
        /\ points_truncated' = out.points_truncated

Return(m) == Result(m) /\ UNCHANGED <<build, tiling, rows, cols, prev, cell, files>>

Call(k) == status = "called" /\ tiling = k

SemiRegularTiling_one   == Call("one")   /\ Return(one(rows, cols, Checks))
SemiRegularTiling_two   == Call("two")   /\ Return(two(rows, cols, Checks))
SemiRegularTiling_three == Call("three") /\ Return(three(rows, cols, Checks))
SemiRegularTiling_four  == Call("four")  /\ Return(four(rows, cols, Checks))
SemiRegularTiling_five  == Call("five")  /\ Return(five(rows, cols, Checks))
SemiRegularTiling_six   == Call("six")   /\ Return(six(rows, cols, Checks))
SemiRegularTiling_seven == Call("seven") /\ Return(seven(rows, cols, Checks))
SemiRegularTiling_eight == Call("eight") /\ Return(eight(rows, cols, Checks))
RegularTiling_triangle ==
    Call("triangle") /\ Return(triangle(rows, cols, Checks))
RegularTiling_square  == Call("square")  /\ Return(square(rows, cols, Checks))
RegularTiling_hexagon == Call("hexagon") /\ Return(hexagon(rows, cols, Checks))

Next ==
    \/ SemiRegularTiling_one
    \/ SemiRegularTiling_two
    \/ SemiRegularTiling_three
    \/ SemiRegularTiling_four
    \/ SemiRegularTiling_five
    \/ SemiRegularTiling_six
    \/ SemiRegularTiling_seven
    \/ SemiRegularTiling_eight
    \/ RegularTiling_triangle
    \/ RegularTiling_square
    \/ RegularTiling_hexagon

Spec == Init /\ [][Next]_vars

----------------------------------------------------------------------------
(* A caller that calls again, as the test `obj` calls triangle and then    *)
(* seven: it keeps the first mesh (prev) and calls                         *)
(*   Resize: the same generator with rows and cols at least as large,      *)
(*   Other:  another generator, and then                                   *)
(*   Repeat: the first generator with the first call's (rows, cols).       *)

InitCalls ==
    /\ build \in Builds
    /\ tiling \in Generators
    /\ rows \in 0 .. PairRows
    /\ cols \in 0 .. PairCols
    /\ cell = NoCell
    /\ Called

\* The mesh the last call returned; between counts the calls of other
\* generators since
Mesh ==
    [tiling |-> tiling, rows |-> rows, cols |-> cols, status |-> status,
     name |-> name, points |-> points, face_index |-> face_index,
     between |-> 0]

Again(k, r, c) ==
    /\ tiling' = k
    /\ rows' = r
    /\ cols' = c
    /\ Result(Generate(k, r, c, Checks))
    /\ UNCHANGED <<build, cell, files>>

Resize ==
    /\ status = "returned"
    /\ prev = NoMesh
    /\ prev' = Mesh
    /\ \E r \in rows .. PairRows, c \in cols .. PairCols : Again(tiling, r, c)

Other ==
    /\ status = "returned"
    /\ prev = NoMesh
    /\ prev' = Mesh
    /\ \E k \in Generators \ {tiling},
          d \in {<<rows, cols>>, <<PairRows, PairCols>>} : Again(k, d[1], d[2])

\* An abort ends the process: no call follows it
Repeat ==
    /\ status \in {"returned", "panicked"}
    /\ prev # NoMesh
    /\ prev.tiling # tiling
    /\ prev' = [prev EXCEPT !.between = 1]
    /\ Again(prev.tiling, prev.rows, prev.cols)

NextCalls == Next \/ Resize \/ Other \/ Repeat

SpecCalls == InitCalls /\ [][NextCalls]_vars

----------------------------------------------------------------------------
(* A call with (rows, cols) too wide to enumerate its cells.  collect()    *)
(* applies the point closure to every lattice cell and then the face       *)
(* closure to every cell of the iteration range, in order; here one        *)
(* application of each is taken, at any cell of the first and of the last  *)
(* WideWindow rows and columns.  points and face_index hold what that      *)
(* application produced, and files the `f` lines to_obj writes for them.   *)

WideWindow == 8

\* 65535 * 65537 = 2^32 - 1, 65536 * 65536 = 2^32; 16777217 = 2^24 + 1
WideDims ==
    {<<9, 16777218>>, <<16777218, 9>>, <<65535, 65537>>, <<65536, 65536>>,
     <<65538, 65536>>}

Ends(n) == (0 .. WideWindow - 1) \cup ((n - WideWindow) .. (n - 1))

InitWide ==
    /\ build \in Builds
    /\ tiling \in Generators
    /\ \E d \in WideDims : rows = d[1] /\ cols = d[2]
    /\ cell \in [x : Ends(cols), y : Ends(rows)]
    /\ Called

\* (0..rows).flat_map(|y| (0..cols).map(move |x| Point::new(..))) at the
\* cell: the point closure never overflows
PointClosure ==
    /\ status = "called"
    /\ status' = "mapped"
    /\ points' = <<PointAt(tiling, cell.x, cell.y)>>
    /\ UNCHANGED <<build, tiling, rows, cols, name, face_index, emitted,
                   truncated, points_truncated, prev, cell, files>>

\* (x, y) is a cell of the iterator, for rows >= yk and cols >= xk
InRange(it, r, c, x, y) ==
    /\ ~U32Less(y, it.ylo) /\ U32Less(y, Sub32(r, it.yk).v)
    /\ ~U32Less(x, it.xlo) /\ U32Less(x, Sub32(c, it.xk).v)

\* The last WideWindow items of the range lo .. hi
Window(lo, hi) ==
    IF hi <= lo THEN <<>>
    ELSE IF hi - lo <= WideWindow THEN [i \in 1 .. (hi - lo) |-> lo + (i - 1)]
    ELSE [i \in 1 .. WideWindow |-> hi - WideWindow + (i - 1)]

\* With overflow checks, the application at the cell happens only if no
\* bound and no earlier application overflowed: none of an iterator chained
\* before this one (Whole), of a row before cell.y, or of the cells before
\* cell.x in its row (Earlier).  A key grows with x and with y, and
\* WideWindow rows or columns in sequence hold a cell of every class of x
\* and y the closures tell apart, so an application to a cell of a range
\* overflows exactly when one to a cell of its last WideWindow rows and
\* columns does.  For rows, cols < 2^31.
Whole(it, r, c) ==
    \/ Sub32(c, it.xk).ov /\ U32Less(it.ylo, Sub32(r, it.yk).v)
    \/ Overflowed(Cells(it.k, Window(it.ylo, r - it.yk),
                        Window(it.xlo, c - it.xk), c))

Earlier(it, x, y, c) ==
    \/ Sub32(c, it.xk).ov
    \/ Overflowed(Cells(it.k, Window(it.ylo, y), Window(it.xlo, c - it.xk), c))
    \/ Overflowed(Cells(it.k, <<y>>, Window(it.xlo, x), c))

Reached(i) ==
    \/ ~Checks
    \/ /\ \A j \in 1 .. Len(FaceIters(tiling)) :
             ~Sub32(rows, FaceIters(tiling)[j].yk).ov
       /\ \A j \in 1 .. (i - 1) : ~Whole(FaceIters(tiling)[j], rows, cols)
       /\ ~Earlier(FaceIters(tiling)[i], cell.x, cell.y, cols)

Yield(run) ==
    IF Checks /\ run.ov
    THEN /\ status' = "panicked"
         /\ points' = <<>>
         /\ face_index' = <<>>
         /\ emitted' = <<>>
    ELSE /\ status' = "yielded"
         /\ points' = points
         /\ face_index' = [f \in 1 .. Len(run.faces) |-> run.faces[f].keys]
         /\ emitted' = [f \in 1 .. Len(run.faces) |->
                          [x       |-> run.faces[f].x,
                           y       |-> run.faces[f].y,
                           offs    |-> run.faces[f].offs,
                           wrapped |-> run.faces[f].wrapped]]

Apply(i, run) == Reached(i) /\ Yield(run)

\* One application of the face closure of one of the generator's iterators
FaceClosure ==
    /\ status = "mapped"
    /\ \E i \in 1 .. Len(FaceIters(tiling)) :
          /\ InRange(FaceIters(tiling)[i], rows, cols, cell.x, cell.y)
          /\ Apply(i, CellFaces(FaceIters(tiling)[i].k, cell.x, cell.y, cols))
    /\ UNCHANGED <<build, tiling, rows, cols, name, truncated,
                   points_truncated, prev, cell, files>>

\* The loop body of to_obj for the faces of the cell: the `f` lines
WriteFaces ==
    /\ status = "yielded"
    /\ files = <<>>
    /\ \E reverse_face_winding \in BOOLEAN :
          files' = <<[reverse |-> reverse_face_winding,
                      out |-> Written(<<>>,
                                      FaceLines(face_index,
                                                reverse_face_winding),
                                      Checks)]>>
    /\ UNCHANGED <<build, tiling, rows, cols, status, name, points,
                   face_index, emitted, truncated, points_truncated, prev,
                   cell>>

NextWide == PointClosure \/ FaceClosure \/ WriteFaces

SpecWide == InitWide /\ [][NextWide]_vars

----------------------------------------------------------------------------
(* A caller that writes the mesh it got, as the test `obj` does: to_obj    *)
(* takes &self, and may be called again with the other winding.            *)

ObjRows == 5
ObjCols == 4
ObjCalls == 2

InitObj ==
    /\ build \in Builds
    /\ tiling \in Generators
    /\ rows \in 0 .. ObjRows
    /\ cols \in 0 .. ObjCols
    /\ cell = NoCell
    /\ Called

\* tiling.to_obj(reverse_face_winding) on a mesh that was returned whole
ToObj ==
    /\ status = "returned"
    /\ ~truncated
    /\ ~points_truncated
    /\ Len(files) < ObjCalls
    /\ \E reverse_face_winding \in BOOLEAN :
          files' = Append(files,
                          [reverse |-> reverse_face_winding,
                           out |-> to_obj(name, points, face_index,
                                          reverse_face_winding, Checks)])
    /\ UNCHANGED <<build, tiling, rows, cols, status, name, points,
                   face_index, emitted, truncated, points_truncated, prev,
                   cell>>

NextObj == Next \/ ToObj

SpecObj == InitObj /\ [][NextObj]_vars

----------------------------------------------------------------------------
(* The properties. *)

\* The faces of the mesh and the vertices of a face
Faces == 1 .. Len(face_index)
Vertices(f) == 1 .. Len(face_index[f])

\* C1: in every returned mesh, of every generator and every (rows, cols),
\* every vertex key of every face is less than rows * cols, an index into
\* the points of the mesh.
\* The release build breaks it where a range bound wraps: square(0, 2)
\* emits [0, 1, 3, 2] over no points at all.
C1_KeysIndexPoints ==
    status = "returned" =>
        \A f \in Faces : \A j \in Vertices(f) :
            U32Less(face_index[f][j], rows * cols)

\* C2: every vertex of every face emitted for a cell (x, y) of the iteration
\* range is a lattice neighbour (x + dx, y + dy) with 0 <= x + dx < cols and
\* 0 <= y + dy < rows.
\* The release build breaks it where a range bound wraps: the cells of the
\* wrapped range lie outside the lattice.
C2_NeighboursInLattice ==
    status = "returned" =>
        \A f \in 1 .. Len(emitted) : \A j \in 1 .. Len(emitted[f].offs) :
            /\ 0 <= emitted[f].x + emitted[f].offs[j][1]
            /\ emitted[f].x + emitted[f].offs[j][1] < cols
            /\ 0 <= emitted[f].y + emitted[f].offs[j][2]
            /\ emitted[f].y + emitted[f].offs[j][2] < rows

\* rows or cols is zero, or below a constant k that a range bound rows - k
\* or cols - k of the generator subtracts: the subtraction goes below zero
\* in u32
Degenerate ==
    \/ rows = 0
    \/ cols = 0
    \/ \E i \in 1 .. Len(FaceIters(tiling)) :
          \/ Sub32(rows, FaceIters(tiling)[i].yk).ov
          \/ Sub32(cols, FaceIters(tiling)[i].xk).ov

\* C3: a call with rows = 0, cols = 0, or rows or cols below the
\* generator's margin completes without error and returns a mesh with no
\* faces: rows - k and cols - k never underflow into a failure or into a
\* huge range.
\* The debug build panics on the subtraction (square(0, 0)); the release
\* build runs over the wrapped range (square(0, 2)).
C3_DegenerateReturnsNoFaces ==
    (status # "called" /\ Degenerate) =>
        (status = "returned" /\ face_index = <<>> /\ ~truncated)

\* C4: when rows * cols exceeds u32::MAX the call fails with an overflow
\* error: no closure is ever applied, and no face has a key computed by
\* wrapped arithmetic.  (The debug build's panic on an overflowing operation
\* is counted as such a failure here.)
\* No generator checks rows * cols: square(65536, 65536) runs to its end in
\* both builds, and the release build of square(65538, 65536) writes keys
\* modulo 2^32.
C4_OverflowIsAnError ==
    Mul32(rows, cols).ov =>
        /\ status \in {"called", "panicked"}
        /\ \A f \in 1 .. Len(emitted) : ~emitted[f].wrapped

\* C5: the points of a returned mesh are exactly rows * cols (none when
\* rows = 0 or cols = 0).  A point list cut for its length is left out: it
\* holds the first points only.
C5_PointsLength ==
    (status = "returned" /\ ~points_truncated) => Len(points) = rows * cols

C5_Witness ==
    /\ status = "returned"
    /\ tiling = "eight"
    /\ rows = 5 /\ cols = 4
    /\ Len(points) = 20

\* key is x + y * cols: Key computes it, and no operation of it wrapped
IsFlatIndex(key, x, y, c) ==
    /\ ~Key(x, 0, y, 0, c).ov
    /\ key = Key(x, 0, y, 0, c).v

\* C6: the point at flat index x + y * cols is the coordinate formula at
\* cell (x, y), y outermost and x innermost; x + y * cols is the key the face
\* closure writes for the vertex (x, y) of cell (x, y); and the square
\* tiling's point of cell (x, y) is exactly (x, y).
\* The release build writes the key modulo 2^32 (square(65538, 65536), cell
\* (0, 65536)); and the f32 of x = 2^24 + 1 is 2^24.
C6_PointAtFlatIndex ==
    /\ status = "returned" =>
          \A y \in 0 .. rows - 1, x \in 0 .. cols - 1 :
              points[x + y * cols + 1] = PointAt(tiling, x, y)
    /\ status \in {"mapped", "yielded"} =>
          /\ points = <<PointAt(tiling, cell.x, cell.y)>>
          /\ tiling = "square" =>
                points[1] = << <<2 * cell.x, 0, 0>>, <<2 * cell.y, 0, 0>> >>
    /\ status = "yielded" =>
          \A f \in Faces : \A j \in Vertices(f) :
              emitted[f].offs[j] = <<0, 0>> =>
                  IsFlatIndex(face_index[f][j], cell.x, cell.y, cols)

\* C7: the vertex keys of a face of a returned mesh are pairwise distinct.
\* The release build breaks it where cols - 1 wraps: square(2, 0) emits
\* [0, 1, 1, 0].
C7_KeysDistinct ==
    status = "returned" =>
        \A f \in Faces : \A i, j \in Vertices(f) :
            i # j => face_index[f][i] # face_index[f][j]

\* C8: every face has 3, 4, 6, 8 or 12 vertices; triangle emits faces of 3
\* vertices only, square of 4 only, hexagon of 6 only.
C8_FaceSizes ==
    status = "returned" =>
        \A f \in Faces :
            /\ Len(face_index[f]) \in {3, 4, 6, 8, 12}
            /\ tiling = "triangle" => Len(face_index[f]) = 3
            /\ tiling = "square" => Len(face_index[f]) = 4
            /\ tiling = "hexagon" => Len(face_index[f]) = 6

C8_Witness ==
    /\ status = "returned"
    /\ ~truncated
    /\ tiling = "hexagon"
    /\ Len(face_index) >= 4
    /\ \A f \in Faces : Len(face_index[f]) = 6

\* C9: point positions do not depend on the patch size: after calls with
\* (r1, c1) and then (r2, c2), r2 >= r1 and c2 >= c1, of one generator, the
\* point at index x + y * c1 of the first mesh is the point at index
\* x + y * c2 of the second, for all x < c1 and y < r1.
C9_PositionsKeepWithSize ==
    ( /\ prev.status = "returned"
      /\ status = "returned"
      /\ prev.tiling = tiling
      /\ prev.rows <= rows
      /\ prev.cols <= cols ) =>
        \A y \in 0 .. prev.rows - 1, x \in 0 .. prev.cols - 1 :
            prev.points[x + y * prev.cols + 1] = points[x + y * cols + 1]

C9_Witness ==
    /\ prev.status = "returned"
    /\ status = "returned"
    /\ prev.tiling = "six" /\ tiling = "six"
    /\ prev.rows = 4 /\ prev.cols = 3
    /\ rows = 5 /\ cols = 4
    /\ prev.points[3 + 3 * 3] = points[3 + 3 * 4]

\* The keys of a face are the flat indices of the cell's neighbours at the
\* offsets offs: key j is (x + dx) + (y + dy) * cols, not wrapped
IsFaceOf(face, offs, x, y, c) ==
    /\ Len(face) = Len(offs)
    /\ \A j \in 1 .. Len(offs) :
          IsFlatIndex(face[j], x + offs[j][1], y + offs[j][2], c)

\* C11: square(rows, cols) with rows, cols >= 1 returns points at the
\* integer coordinates (x, y), and one face per unit cell, the face of cell
\* (x, y) being [x + y * cols, (x + 1) + y * cols, (x + 1) + (y + 1) * cols,
\* x + (y + 1) * cols]: it does not panic, the point of every cell is (x, y)
\* and the face closure yields at every cell that one face.
\* The f32 of x = 2^24 + 1 is 2^24 (square(9, 16777218)); and where
\* (y + 1) * cols passes 2^32 the debug build panics and the release build
\* writes the keys modulo 2^32 (square(65538, 65536)).
C11_SquareMesh ==
    (tiling = "square" /\ rows >= 1 /\ cols >= 1) =>
        /\ status # "panicked"
        /\ status \in {"mapped", "yielded"} =>
              points = << << <<2 * cell.x, 0, 0>>, <<2 * cell.y, 0, 0>> >> >>
        /\ status = "yielded" =>
              /\ Len(face_index) = 1
              /\ IsFaceOf(face_index[1], Quad, cell.x, cell.y, cols)

\* C12: triangle(rows, cols) with rows, cols >= 1 returns, for each cell
\* (x, y) with key k = x + y * cols, the two triangles [k, k + 1, k + cols]
\* and [k + 1, k + 1 + cols, k + cols]: it does not panic, and the face
\* closure yields at every cell those two faces, in this order.
\* Where (y + 1) * cols passes 2^32 the debug build panics and the release
\* build writes the keys modulo 2^32 (triangle(65538, 65536)).
C12_TriangleMesh ==
    (tiling = "triangle" /\ rows >= 1 /\ cols >= 1) =>
        /\ status # "panicked"
        /\ status = "yielded" =>
              /\ Len(face_index) = 2
              /\ IsFaceOf(face_index[1], Tri1, cell.x, cell.y, cols)
              /\ IsFaceOf(face_index[2], Tri2, cell.x, cell.y, cols)

\* The faces emitted for cell (x, y)
FacesOfCell(x, y) ==
    {f \in 1 .. Len(emitted) : emitted[f].x = x /\ emitted[f].y = y}

\* The cell class of eight's dodecagon: x mod 4 = 3 and y mod 4 = 1
DodecagonCell(x, y) == U32Mod(x, 4) = 3 /\ U32Mod(y, 4) = 1

\* C13: eight emits only faces of 4, 6 or 12 vertices; a face has 12
\* vertices exactly when its cell has x mod 4 = 3 and y mod 4 = 1, and every
\* such cell of the iteration range (3 .. rows - 5, 3 .. cols - 4) emits
\* exactly one face, of 12 vertices: one per 4 x 4 period of cells.
C13_EightDodecagons ==
    (status = "returned" /\ tiling = "eight") =>
        /\ \A f \in Faces :
              /\ Len(face_index[f]) \in {4, 6, 12}
              /\ Len(face_index[f]) = 12 <=>
                    DodecagonCell(emitted[f].x, emitted[f].y)
        /\ \A f, g \in Faces :
              (/\ Len(face_index[f]) = 12
               /\ emitted[f].x = emitted[g].x
               /\ emitted[f].y = emitted[g].y) => f = g
        /\ ~Degenerate =>
              \A y \in 3 .. rows - 5, x \in 3 .. cols - 4 :
                  DodecagonCell(x, y) =>
                      \E f \in FacesOfCell(x, y) : Len(face_index[f]) = 12

\* eight(11, 10) covers the period of cells 3 .. 6 x 3 .. 6: one dodecagon,
\* of cell (3, 5), among six faces
C13_Witness ==
    /\ status = "returned"
    /\ tiling = "eight"
    /\ rows = 11 /\ cols = 10
    /\ Len(face_index) = 6
    /\ Cardinality({f \in Faces : Len(face_index[f]) = 12}) = 1
    /\ \E f \in FacesOfCell(3, 5) : Len(face_index[f]) = 12
    /\ \E f \in Faces : Len(face_index[f]) = 4
    /\ \E f \in Faces : Len(face_index[f]) = 6

\* The period of the discriminator of six, seven (x % 2, y % 4) and eight
\* (x % 4, y % 4)
Period(k) == [rows |-> 4, cols |-> IF k = "eight" THEN 4 ELSE 2]

\* The range lo .. b of u32 values holds at least n items: lo < b and
\* b - lo >= n, in u32 order
HoldsPeriod(lo, b, n) == U32Less(lo, b) /\ ~U32Less(Sub32(b, lo).v, n)

\* The iteration ranges ylo .. rows - yk and xlo .. cols - xk the generator
\* builds, bounds computed in u32, hold a full period of its discriminator
FullPeriod ==
    /\ HoldsPeriod(FaceIters(tiling)[1].ylo,
                   Sub32(rows, FaceIters(tiling)[1].yk).v, Period(tiling).rows)
    /\ HoldsPeriod(FaceIters(tiling)[1].xlo,
                   Sub32(cols, FaceIters(tiling)[1].xk).v, Period(tiling).cols)

\* A cell of the rows ys and the columns xs for which the closure k yields a
\* face of 12 vertices
DodecagonAmong(k, ys, xs) ==
    \E yi \in 1 .. Len(ys) : \E xi \in 1 .. Len(xs) :
        \E j \in 1 .. Len(FacesAt(k, xs[xi], ys[yi]).faces) :
            Len(FacesAt(k, xs[xi], ys[yi]).faces[j]) = 12

\* The face list of the call holds a face of 12 vertices: one of the listed
\* faces, or, where the list is cut, one of a cell of the iteration ranges,
\* which the cut list goes on to.  Of a long range the first TruncLen items
\* are looked at: they hold every class of x and of y the closures tell
\* apart.
EmitsDodecagon ==
    \/ \E f \in Faces : Len(face_index[f]) = 12
    \/ /\ truncated
       /\ \E i \in 1 .. Len(FaceIters(tiling)) :
             DodecagonAmong(FaceIters(tiling)[i].k,
                            RangeItems(FaceIters(tiling)[i].ylo,
                                       Sub32(rows, FaceIters(tiling)[i].yk)),
                            RangeItems(FaceIters(tiling)[i].xlo,
                                       Sub32(cols, FaceIters(tiling)[i].xk)))

\* C14, as stated: each of six, seven and eight, called with rows and cols
\* large enough that its iteration range holds a full period of the
\* discriminator, emits at least one face of 12 vertices.
\* seven emits none: seven(9, 6) returns faces of 3, 4 and 6 vertices.
C14_DodecagonsInSixSevenEight ==
    (/\ status = "returned"
     /\ tiling \in {"six", "seven", "eight"}
     /\ FullPeriod) =>
        EmitsDodecagon

\* C14, amended: faces of 12 vertices appear in six and eight only.  six and
\* eight, called with rows and cols for which the iteration range holds a
\* full period of the discriminator, emit at least one face of 12 vertices;
\* no other generator emits one, whatever rows and cols, and seven emits
\* faces of 3, 4 and 6 vertices only.
C14_DodecagonsInSixEight ==
    status = "returned" =>
        /\ (tiling \in {"six", "eight"} /\ FullPeriod) => EmitsDodecagon
        /\ tiling \notin {"six", "eight"} => ~EmitsDodecagon
        /\ tiling = "seven" =>
              \A f \in Faces : Len(face_index[f]) \in {3, 4, 6}

\* six(9, 5) covers the period of cells 0 .. 1 x 1 .. 4: the dodecagon of
\* cell (0, 4)
C14_Witness ==
    /\ status = "returned"
    /\ tiling = "six"
    /\ rows = 9 /\ cols = 5
    /\ FullPeriod
    /\ \E f \in FacesOfCell(0, 4) : Len(face_index[f]) = 12

\* The lines before the `f` lines: the `o` line and the `v` lines of a whole
\* mesh; none for the faces of a single cell
HeadLines == IF status = "returned" THEN 1 + Len(points) ELSE 0

\* The `f` line of face f in the i-th file
ObjFace(i, f) == files[i].out.lines[HeadLines + f]

\* C15: to_obj writes one `o <name>-tiling` line, one `v` line per point and
\* one `f` line per face, in this order; a face line lists key + 1 for
\* every key of the face, in the face's order, or reversed when
\* reverse_face_winding is set; and to_obj(true) and to_obj(false) of one
\* mesh differ only in that the key list of every face line is reversed.
\* key + 1 is the integer after the key, which for the key 4294967295 (the
\* pattern -1) is 4294967296, a number no u32 holds.
\* vertex_index + 1 is a u32 sum: for the key 4294967295, of cell
\* (65534, 65534) of square(65536, 65536), the release build writes 0 and
\* the debug build panics.
C15_ObjLines ==
    \A i \in 1 .. Len(files) :
        /\ files[i].out.status = "ok"
        /\ Len(files[i].out.lines) = HeadLines + Len(face_index)
        /\ status = "returned" =>
              /\ files[i].out.lines[1] = <<"o", name \o "-tiling">>
              /\ \A v \in 1 .. Len(points) :
                    /\ Len(files[i].out.lines[1 + v]) = 4
                    /\ files[i].out.lines[1 + v][1] = "v"
                    /\ files[i].out.lines[1 + v][4] = "0"
        /\ \A f \in Faces :
              /\ Len(ObjFace(i, f)) = 1 + Len(face_index[f])
              /\ ObjFace(i, f)[1] = "f"
              /\ \A j \in Vertices(f) :
                    LET key == face_index[f][
                                   IF files[i].reverse
                                   THEN Len(face_index[f]) + 1 - j ELSE j]
                    IN  ObjFace(i, f)[1 + j] =
                            IF key = -1 THEN "4294967296"
                            ELSE U32Text(WrapAdd(key, 1))
        /\ \A k \in 1 .. Len(files) :
              files[k].reverse # files[i].reverse =>
                  /\ files[k].out.status = "ok"
                  /\ Len(files[k].out.lines) = Len(files[i].out.lines)
                  /\ \A l \in 1 .. HeadLines :
                        files[k].out.lines[l] = files[i].out.lines[l]
                  /\ \A f \in Faces :
                        /\ Head(ObjFace(k, f)) = Head(ObjFace(i, f))
                        /\ Tail(ObjFace(k, f)) = Rev(Tail(ObjFace(i, f)))

\* The sides of the faces: side j of face f runs from key j to the next key
\* of the face, the last to the first
Sides == UNION {{<<f, j>> : j \in Vertices(f)} : f \in Faces}

DirectedEdge(s) ==
    <<face_index[s[1]][s[2]],
      face_index[s[1]][(s[2] % Len(face_index[s[1]])) + 1]>>

\* C16: in every returned mesh no directed edge (a, b), a pair of
\* cyclically consecutive keys of a face, occurs twice, in one face or in
\* two: all sides of all faces are different directed edges.
C16_WindingConsistent ==
    status = "returned" =>
        Cardinality({DirectedEdge(s) : s \in Sides}) = Cardinality(Sides)

\* The lattice point (x, y) is the centre of a hexagon of tiling one
Centre(x, y) == one_i(x, y) = 4

\* The six lattice neighbours of a cell, in the order of the 6-vertex face
Hexagon == << <<1, 0>>, <<0, 1>>, <<-1, 1>>, <<-1, 0>>, <<0, -1>>, <<1, -1>> >>

\* None of the lattice points at the offsets offs of (x, y) is a centre
NoCentre(offs, x, y) ==
    \A j \in 1 .. Len(offs) :
        ~Centre(Off32(x, offs[j][1]).v, Off32(y, offs[j][2]).v)

\* Cell (x, y) emitted a face at the offsets offs
EmittedAt(offs, x, y) ==
    \E f \in FacesOfCell(x, y) :
        /\ emitted[f].offs = offs
        /\ IsFaceOf(face_index[f], offs, x, y, cols)

\* The faces of cell (x, y) are what the covering asks for
CellCovered(x, y) ==
    /\ EmittedAt(Tri1, x, y) <=> NoCentre(Tri1, x, y)
    /\ EmittedAt(Tri2, x, y) <=> NoCentre(Tri2, x, y)
    /\ EmittedAt(Hexagon, x, y) <=> Centre(x, y)
    /\ \A f \in FacesOfCell(x, y) :
          /\ emitted[f].offs \in {Tri1, Tri2, Hexagon}
          /\ IsFaceOf(face_index[f], emitted[f].offs, x, y, cols)
          /\ NoCentre(emitted[f].offs, x, y)
          /\ \A g \in FacesOfCell(x, y) :
                emitted[g].offs = emitted[f].offs => g = f

\* C17: one(rows, cols) with rows, cols >= 2 does not panic; no face it
\* emits has the key of a centre, a lattice point with (x + 3y) mod 7 = 4;
\* each cell (x, y), 1 <= x <= cols - 2 and 1 <= y <= rows - 2, emits its
\* triangle [(x, y), (x+1, y), (x, y+1)] exactly when none of the three
\* corners is a centre, its triangle [(x+1, y), (x+1, y+1), (x, y+1)]
\* likewise, and the face of its six neighbours exactly when (x, y) is a
\* centre; every key is the flat index of its lattice point.
\* Where (y + 1) * cols passes 2^32 the debug build panics and the release
\* build writes keys modulo 2^32, the keys of other lattice points
\* (one(65538, 65536): cell (1, 65536) emits [1, 2, 65537]).
C17_OneCoverage ==
    (tiling = "one" /\ rows >= 2 /\ cols >= 2) =>
        /\ status # "panicked"
        /\ status = "yielded" => CellCovered(cell.x, cell.y)
        /\ status = "returned" =>
              /\ \A y \in 1 .. rows - 2, x \in 1 .. cols - 2 :
                    CellCovered(x, y)
              /\ \A f \in Faces :
                    /\ 1 <= emitted[f].x /\ emitted[f].x <= cols - 2
                    /\ 1 <= emitted[f].y /\ emitted[f].y <= rows - 2

=============================================================================
